---- MODULE Spec2Model ----
(***************************************************************************)
(* Model of the resume-analysis pipeline of src/src/App.tsx: the App       *)
(* component's state (resumeFile, jobDescription, analysisResult, loading) *)
(* and the asynchronous handler analyzeResume, split at its two awaits     *)
(* (extractTextFromPDF and groq.chat.completions.create).                  *)
(***************************************************************************)
EXTENDS Integers, Sequences, FiniteSets, TLC

\* ------------------------------------------------------------------ bounds
\* Number of activations of analyzeResume that may be suspended at once.
MaxRuns == 2
\* Longest text (in characters) the PDF extraction capability returns.
MaxLen == 2

Runs == 1..MaxRuns

\* --------------------------------------------------------- decoded JSON
\* A member of a decoded JSON object: absent, a number, a string or an
\* array of strings.  All members share one record shape.
Absent == [t |-> "absent", n |-> 0, s |-> "", a |-> <<>>]
Num(x) == [t |-> "num", n |-> x, s |-> "", a |-> <<>>]
Str(x) == [t |-> "str", n |-> 0, s |-> x, a |-> <<>>]
Arr(x) == [t |-> "arr", n |-> 0, s |-> "", a |-> x]

\* The members of AnalysisResult in declaration order (nested members are
\* named by their path).
Fields ==
  << "overall_summary", "resume_score", "ats_compatibility", "resume_length",
     "readability_score",
     "skills_match.matched", "skills_match.missing",
     "skills_match.match_percentage",
     "soft_skills_match.matched", "soft_skills_match.missing",
     "technical_proficiency.strong", "technical_proficiency.moderate",
     "technical_proficiency.weak_or_missing",
     "keywords_analysis.present_keywords",
     "keywords_analysis.missing_keywords",
     "job_requirements_coverage.met_requirements",
     "job_requirements_coverage.missing_requirements",
     "experience_alignment.aligned_experience",
     "experience_alignment.missing_experience_areas",
     "tone_of_language", "formatting_issues", "grammar_issues",
     "recommendations" >>

FieldSet == {Fields[i] : i \in 1..Len(Fields)}

\* Members declared `string` and `number` by the interface; every other
\* member is declared `string[]`.
StringFields ==
  {"overall_summary", "ats_compatibility", "resume_length", "tone_of_language"}

NumberFields ==
  {"resume_score", "readability_score", "skills_match.match_percentage"}

\* The type the interface declares for a member.
DeclaredType(f) ==
  IF f \in StringFields THEN "str"
  ELSE IF f \in NumberFields THEN "num" ELSE "arr"

\* The values the schema sent to the service allows for the enumerated members.
Allowed(f) ==
  CASE f = "ats_compatibility" -> {"High", "Medium", "Low"}
    [] f = "resume_length" -> {"Too Short", "Optimal", "Too Long"}
    [] f = "tone_of_language" -> {"Professional", "Casual", "Neutral", "Aggressive"}
    [] OTHER -> {}

EnumFields == {"ats_compatibility", "resume_length", "tone_of_language"}

\* A JavaScript value as JSON.parse yields it: null, a number, a string, an
\* array, or an object with members f.
NoMembers == [f \in FieldSet |-> Absent]
JNull == [k |-> "null", f |-> NoMembers]
JNumber == [k |-> "num", f |-> NoMembers]
JString == [k |-> "str", f |-> NoMembers]
JArray == [k |-> "arr", f |-> NoMembers]
Obj(members) == [k |-> "obj", f |-> members]


\* ------------------------------------------------- service payloads
\* A schema-conformant payload.
Sample ==
  [f \in FieldSet |->
     CASE f = "overall_summary" -> Str("Solid backend profile")
       [] f = "resume_score" -> Num(72)
       [] f = "ats_compatibility" -> Str("High")
       [] f = "resume_length" -> Str("Optimal")
       [] f = "readability_score" -> Num(80)
       [] f = "skills_match.matched" -> Arr(<<"Go", "AWS">>)
       [] f = "skills_match.missing" -> Arr(<<"Kubernetes">>)
       [] f = "skills_match.match_percentage" -> Num(66)
       [] f = "tone_of_language" -> Str("Professional")
       [] OTHER -> Arr(<<>>)]

\* Objects the service may answer with: conformant ones, ones with numbers
\* outside 0..100, ones with members missing or of another type, ones with
\* enumerated members in another case or with another value.
Reordered ==
  [Sample EXCEPT !["skills_match.matched"] = Arr(<<"AWS", "Go">>),
                 !["resume_score"] = Num(100)]

Objects ==
  { Sample, Reordered,
    [Sample EXCEPT !["resume_score"] = Num(150),
                   !["readability_score"] = Num(0 - 5),
                   !["skills_match.match_percentage"] = Num(101)],
    [Sample EXCEPT !["overall_summary"] = Absent,
                   !["resume_score"] = Str("72")],
    [Sample EXCEPT !["ats_compatibility"] = Str("high")],
    [Sample EXCEPT !["tone_of_language"] = Str("Friendly"),
                   !["recommendations"] = Absent],
    NoMembers }

\* The values a well-formed JSON text may denote.
JSONValues == {JNull, JNumber, JString, JArray} \cup {Obj(m) : m \in Objects}

\* How the awaited groq.chat.completions.create call settles:
\*   reject      the promise rejects (network, auth, rate limit, server)
\*   nochoices   it resolves with an empty choices array
\*   nullcontent it resolves with message.content = null
\*   badjson     it resolves with a text that is not JSON, e.g. "{not json"
\*   json        it resolves with a JSON text denoting v
Reply(kind, v) == [kind |-> kind, v |-> v]
NoReply == Reply("none", JNull)
Replies ==
  {Reply(k, JNull) : k \in {"reject", "nochoices", "nullcontent", "badjson"}}
    \cup {Reply("json", v) : v \in JSONValues}

\* ------------------------------------------------------ extracted text
Chars == {" ", "x"}
Texts == UNION {[1..n -> Chars] : n \in 0..MaxLen}

\* String.prototype.trim: strip the white space at both ends.
RECURSIVE trimStart(_)
trimStart(text) ==
  IF text # <<>> /\ Head(text) = " " THEN trimStart(Tail(text)) ELSE text

RECURSIVE trimEnd(_)
trimEnd(text) ==
  IF text # <<>> /\ text[Len(text)] = " "
  THEN trimEnd(SubSeq(text, 1, Len(text) - 1)) ELSE text

trim(text) == trimEnd(trimStart(text))

\* The condition !resumeText.trim() of analyzeResume.
IsBlank_Inverted(text) == trim(text) # <<>>
IsBlank(text) == trim(text) = <<>>

\* extractTextFromPDF: the text pdfToText resolves with, '' when it throws.
extractTextFromPDF(threw, text) == IF threw THEN <<>> ELSE text

\* ------------------------------------------------------------- state
NoFile == "null"
Files == {"cv.pdf"}
Descriptions == {"", "Seeking backend engineer"}

\* The condition !resumeFile || !jobDescription of analyzeResume.
MissingInput_Both(file, description) == file = NoFile /\ description = ""
MissingInput(file, description) == file = NoFile \/ description = ""

\* The expression JSON.parse(completion.choices[0].message.content):
\* reading choices[0].message of an empty array throws a TypeError, a text
\* that is not JSON throws a SyntaxError, a null content is converted to the
\* text "null" and parses to null.
Decode_Lenient(reply) ==
  CASE reply.kind = "nochoices" -> [threw |-> TRUE, v |-> JNull]
    [] reply.kind = "badjson" -> [threw |-> FALSE, v |-> JNull]
    [] reply.kind = "nullcontent" -> [threw |-> FALSE, v |-> JNull]
    [] OTHER -> [threw |-> FALSE, v |-> reply.v]
Decode_Reversing(reply) ==
  CASE reply.kind = "nochoices" -> [threw |-> TRUE, v |-> JNull]
    [] reply.kind = "badjson" -> [threw |-> TRUE, v |-> JNull]
    [] reply.kind = "nullcontent" -> [threw |-> FALSE, v |-> JNull]
    [] OTHER ->
         [threw |-> FALSE,
          v |-> [reply.v EXCEPT !.f =
                   [f \in FieldSet |->
                      [reply.v.f[f] EXCEPT !.a =
                         [i \in 1..Len(@) |-> @[Len(@) + 1 - i]]]]]]
Decode(reply) ==
  CASE reply.kind = "nochoices" -> [threw |-> TRUE, v |-> JNull]
    [] reply.kind = "badjson" -> [threw |-> TRUE, v |-> JNull]
    [] reply.kind = "nullcontent" -> [threw |-> FALSE, v |-> JNull]
    [] OTHER -> [threw |-> FALSE, v |-> reply.v]

VARIABLES
  resumeFile,      \* useState<File | null>
  jobDescription,  \* useState('')
  analysisResult,  \* useState<AnalysisResult | null>
  loading,         \* useState(false)
  run,             \* the activations of analyzeResume, one per slot
  escaped,         \* an exception left analyzeResume uncaught
  last,            \* the most recent step of analyzeResume
  solo             \* the run started while no other was in flight

vars ==
  <<resumeFile, jobDescription, analysisResult, loading, run, escaped, last, solo>>

\* An activation: where it is suspended and the calls it has made to the text
\* extractor and to the completion service.
Activation(pc, extractCalls, serviceCalls) ==
  [pc |-> pc, extractCalls |-> extractCalls, serviceCalls |-> serviceCalls]

Idle == Activation("idle", 0, 0)

\* What a text is to analyzeResume: the empty string, white space only, or
\* a text with something in it.
TextClass(text) ==
  IF text = <<>> THEN "empty" ELSE IF trim(text) = <<>> THEN "blank" ELSE "text"

\* A step of analyzeResume: what it consumed (whether the extraction threw
\* and the class of the text it yielded, or the settled service call), the
\* notification it issued and the calls its activation has made so far.
Step(step, threw, text, reply, notice, activation) ==
  [step |-> step, threw |-> threw, text |-> text, reply |-> reply,
   notice |-> notice, extractCalls |-> activation.extractCalls,
   serviceCalls |-> activation.serviceCalls]

\* The record of the run started while no other was in flight: whether
\* analyzeResume was entered again before it ended, the analysisResult it
\* leaves when nothing else runs (`alone`: the value it found, replaced by the
\* value it published), and the state observed when it ended (`seen`,
\* `seenLoading`).
NoSolo ==
  [run |-> 0, rival |-> FALSE, done |-> FALSE,
   alone |-> JNull, seen |-> JNull, seenLoading |-> FALSE]

InFlight == {r \in Runs : run[r].pc # "idle"}

Init ==
  /\ resumeFile = NoFile
  /\ jobDescription = ""
  /\ analysisResult = JNull
  /\ loading = FALSE
  /\ run = [r \in Runs |-> Idle]
  /\ escaped = FALSE
  /\ last = Step("none", FALSE, "none", NoReply, "none", Idle)
  /\ solo = NoSolo

\* ------------------------------------------------------------ actions
\* <input type="file" onChange={handleResumeUpload}>: files is the FileList.
handleResumeUpload(files) ==
  /\ resumeFile' = IF Len(files) > 0 THEN files[1] ELSE resumeFile
  /\ UNCHANGED <<jobDescription, analysisResult, loading, run, escaped, last>>

\* <textarea onChange={(e) => setJobDescription(e.target.value)}>
setJobDescription(value) ==
  /\ jobDescription' = value
  /\ UNCHANGED <<resumeFile, analysisResult, loading, run, escaped, last>>

\* The slot a new activation of analyzeResume takes: the first free one.
FreeSlot ==
  CHOOSE r \in Runs : run[r].pc = "idle" /\ \A q \in 1..(r - 1) : run[q].pc # "idle"

\* The value the finally block gives loading: setLoading(false).
Finally_Missing == loading
Finally == FALSE

\* analyzeResume up to its first await: the input guard, setLoading(true) and
\* the call of extractTextFromPDF.  The function does not read loading.
analyzeResume ==
  /\ \E r \in Runs : run[r].pc = "idle"
  /\ IF MissingInput(resumeFile, jobDescription)
     THEN /\ last' = Step("invoke", FALSE, "none", NoReply, "alert:missing", Idle)
          /\ UNCHANGED <<run, loading>>
     ELSE /\ loading' = TRUE
          /\ run' = [run EXCEPT ![FreeSlot] = Activation("extracting", 1, 0)]
          /\ last' = Step("invoke", FALSE, "none", NoReply, "none", run'[FreeSlot])
  /\ UNCHANGED <<resumeFile, jobDescription, analysisResult, escaped>>

\* The disabled attribute of the Analyze button.
disabled == loading \/ resumeFile = NoFile \/ jobDescription = ""

\* onClick={analyzeResume} of the enabled button.
ClickAnalyze == ~disabled /\ analyzeResume

\* analyzeResume entered while the button's disabled condition holds (a
\* click dispatched before the re-render that disables the button is
\* committed, or a call of the handler that does not come from the button).
\* The handler itself checks its inputs, and does not check loading.
InvokeUnguarded == disabled /\ analyzeResume

\* The catch and finally clauses of analyzeResume, entered by run r after
\* the completion request settled with reply.
Caught_Outside(r, reply) ==
  /\ run' = [run EXCEPT ![r] = Idle]
  /\ last' = Step("service", FALSE, "none", reply, "none", run[r])
  /\ escaped' = TRUE
  /\ UNCHANGED <<analysisResult, loading>>
Caught_Retry(r, reply) ==
  /\ run' = [run EXCEPT ![r].serviceCalls = @ + 1]
  /\ last' = Step("service", FALSE, "none", reply, "none", run'[r])
  /\ UNCHANGED <<analysisResult, loading, escaped>>
Caught(r, reply) ==
  /\ run' = [run EXCEPT ![r] = Idle]
  /\ last' = Step("service", FALSE, "none", reply, "alert:failed", run[r])
  /\ loading' = Finally
  /\ UNCHANGED <<analysisResult, escaped>>

\* The awaited extractTextFromPDF settles: analyzeResume resumes, reports a
\* blank text with toast.error and returns, or else builds the prompt and
\* calls groq.chat.completions.create.
ExtractSettles(r, threw, text) ==
  /\ run[r].pc = "extracting"
  /\ LET resumeText == extractTextFromPDF(threw, text) IN
       IF IsBlank(resumeText)
       THEN /\ run' = [run EXCEPT ![r] = Idle]
            /\ last' = Step("extract", threw, TextClass(resumeText), NoReply, "toast.error:scan", run[r])
            /\ loading' = Finally
       ELSE /\ run' = [run EXCEPT ![r].pc = "calling", ![r].serviceCalls = @ + 1]
            /\ last' = Step("extract", threw, TextClass(resumeText), NoReply, "none", run'[r])
            /\ UNCHANGED loading
  /\ UNCHANGED <<resumeFile, jobDescription, analysisResult, escaped>>

\* The awaited completion request settles: analyzeResume resumes, decodes the
\* content and publishes it with toast.success; a rejection or an exception
\* of the decoding goes to the catch clause.
ServiceSettles(r, reply) ==
  /\ run[r].pc = "calling"
  /\ IF reply.kind = "reject" \/ Decode(reply).threw
     THEN Caught(r, reply)
     ELSE /\ analysisResult' = Decode(reply).v
          /\ run' = [run EXCEPT ![r] = Idle]
          /\ last' = Step("service", FALSE, "none", reply, "toast.success", run[r])
          /\ loading' = Finally
          /\ UNCHANGED escaped
  /\ UNCHANGED <<resumeFile, jobDescription>>

\* solo after a step of analyzeResume up to its first await.
SoloInvoked ==
  IF InFlight = {}
  THEN IF MissingInput(resumeFile, jobDescription) THEN solo
       ELSE [NoSolo EXCEPT !.run = FreeSlot, !.alone = analysisResult]
  ELSE IF solo.run \in InFlight /\ ~solo.done
       THEN [solo EXCEPT !.rival = TRUE] ELSE solo

\* solo after a step in which an awaited call of run r settled.
SoloSettled(r) ==
  IF solo.run = r /\ ~solo.done /\ run'[r].pc = "idle"
  THEN [solo EXCEPT !.done = TRUE,
                    !.alone = IF last'.notice = "toast.success"
                              THEN Decode(last'.reply).v ELSE solo.alone,
                    !.seen = analysisResult',
                    !.seenLoading = loading']
  ELSE solo

Next ==
  \/ \E files \in {<<>>} \cup {<<f>> : f \in Files} :
       handleResumeUpload(files) /\ UNCHANGED solo
  \/ \E value \in Descriptions : setJobDescription(value) /\ UNCHANGED solo
  \/ ClickAnalyze /\ UNCHANGED solo
  \/ InvokeUnguarded /\ UNCHANGED solo
  \/ \E r \in Runs, text \in Texts : ExtractSettles(r, FALSE, text) /\ UNCHANGED solo
  \/ \E r \in Runs : ExtractSettles(r, TRUE, <<>>) /\ UNCHANGED solo
  \/ \E r \in Runs, reply \in Replies : ServiceSettles(r, reply) /\ UNCHANGED solo

Spec == Init /\ [][Next]_vars

\* Every awaited call settles: it returns or it throws.
FairSpec ==
  /\ Spec
  /\ \A r \in Runs :
       /\ WF_vars(/\ run[r].pc = "extracting"
                  /\ \E threw \in BOOLEAN, text \in Texts :
                       ExtractSettles(r, threw, text) /\ UNCHANGED solo)
       /\ WF_vars(/\ run[r].pc = "calling"
                  /\ \E reply \in Replies :
                       ServiceSettles(r, reply) /\ UNCHANGED solo)

\* The answers that tell two runs apart: two conformant payloads, a failed
\* request and a text that is not JSON.
RaceReplies ==
  {Reply("reject", JNull), Reply("badjson", JNull),
   Reply("json", Obj(Sample)), Reply("json", Obj(Reordered))}

\* The same steps, with the record of the run started alone kept up to date.
RaceNext ==
  \/ \E files \in {<<>>} \cup {<<f>> : f \in Files} :
       handleResumeUpload(files) /\ UNCHANGED solo
  \/ \E value \in Descriptions : setJobDescription(value) /\ UNCHANGED solo
  \/ ClickAnalyze /\ solo' = SoloInvoked
  \/ InvokeUnguarded /\ solo' = SoloInvoked
  \/ \E r \in Runs, text \in Texts :
       ExtractSettles(r, FALSE, text) /\ solo' = SoloSettled(r)
  \/ \E r \in Runs : ExtractSettles(r, TRUE, <<>>) /\ solo' = SoloSettled(r)
  \/ \E r \in Runs, reply \in RaceReplies :
       ServiceSettles(r, reply) /\ solo' = SoloSettled(r)

RaceSpec == Init /\ [][RaceNext]_vars

TypeOK ==
  /\ resumeFile \in {NoFile} \cup Files
  /\ jobDescription \in Descriptions
  /\ analysisResult \in JSONValues
  /\ loading \in BOOLEAN
  /\ escaped \in BOOLEAN
  /\ \A r \in Runs : run[r].pc \in {"idle", "extracting", "calling"}

\* ------------------------------------------------------------ claims
\* The AnalysisResult interface: every member present with its declared type.
Conforms(v) == v.k = "obj" /\ \A f \in FieldSet : v.f[f].t = DeclaredType(f)

\* C1: at most one analysis run is in flight at any time.
C1_AtMostOneRunInFlight == Cardinality(InFlight) <= 1

\* C2: when analyzeResume is entered again while the run started alone is
\* still running, the state observed when that run ends (loading,
\* analysisResult) is the state it produces alone.
C2_SecondInvocationAltersNothing ==
  solo.done /\ solo.rival => solo.seen = solo.alone /\ solo.seenLoading = FALSE

\* C3: a run invoked with no document selected or an empty job description
\* ends with the missing-input alert, calls neither the text extractor nor
\* the completion service and leaves loading and the activations untouched.
C3_MissingInputCallsNothing ==
  [][(last'.step = "invoke" /\ (last' # last \/ run' # run)
        /\ (resumeFile = NoFile \/ jobDescription = ""))
     => (/\ last'.notice = "alert:missing"
         /\ last'.extractCalls = 0 /\ last'.serviceCalls = 0
         /\ run' = run /\ loading' = loading
         /\ analysisResult' = analysisResult)]_vars

C3_Witness ==
  /\ last.step = "invoke" /\ last.notice = "alert:missing"
  /\ last.extractCalls = 0 /\ last.serviceCalls = 0
  /\ InFlight = {}

\* C4: when the extraction yields the empty string (also when the extraction
\* capability throws), the run ends with the scan-failure toast and has made
\* no call to the completion service.
C4_EmptyTextSkipsService ==
  last.step = "extract" /\ (last.threw \/ last.text = "empty")
    => /\ last.notice = "toast.error:scan"
       /\ last.extractCalls = 1 /\ last.serviceCalls = 0

C4_Witness ==
  /\ last.step = "extract" /\ last.threw /\ last.text = "empty"
  /\ last.notice = "toast.error:scan" /\ last.serviceCalls = 0

\* C5: a non-null analysisResult has every member of AnalysisResult, each
\* with its declared type.
C5_ExposedResultConforms == analysisResult # JNull => Conforms(analysisResult)

\* C6: a failing stage of a run (extraction, service call, decoding of the
\* response) ends the run with its failure notification, and no exception
\* leaves analyzeResume.
C6_NoFailureEscapes ==
  /\ ~escaped
  /\ last.step = "extract" /\ last.threw => last.notice = "toast.error:scan"
  /\ last.step = "service" /\ last.reply.kind \in {"reject", "nochoices", "badjson"}
       => last.notice = "alert:failed"

C6_Witness ==
  /\ last.step = "service" /\ last.reply.kind = "nochoices"
  /\ last.notice = "alert:failed" /\ ~escaped

\* C7: every run that set loading ends (with the success toast, the failure
\* alert or the scan-failure toast), and the step that ends it leaves
\* loading false.
C7_EveryRunEnds ==
  /\ \A r \in Runs : (run[r].pc # "idle") ~> (run[r].pc = "idle")
  /\ [][\A r \in Runs :
          run[r].pc # "idle" /\ run'[r].pc = "idle"
            => /\ loading' = FALSE
               /\ last'.notice \in {"toast.success", "alert:failed", "toast.error:scan"}]_vars

C7_Witness ==
  /\ last.step = "service" /\ last.notice = "alert:failed"
  /\ InFlight = {} /\ ~loading /\ ~disabled

\* Clamping of a number to 0..100.
Clamp(n) == IF n < 0 THEN 0 ELSE IF n > 100 THEN 100 ELSE n

\* The members of an object with the bounded numbers clamped.
Clamped(m) ==
  [f \in FieldSet |-> IF f \in NumberFields /\ m[f].t = "num"
                      THEN Num(Clamp(m[f].n)) ELSE m[f]]

C9_MalformedReplyFails ==
  [][\A r \in Runs :
       run[r].pc = "calling" /\ run'[r].pc = "idle" /\ last'.reply.kind = "badjson"
         => /\ last'.notice = "alert:failed"
            /\ analysisResult' = analysisResult
            /\ loading' = FALSE]_vars

C9_Witness ==
  /\ last.step = "service" /\ last.reply.kind = "badjson"
  /\ last.notice = "alert:failed"

\* Lower case of the values the enumerated members take.
Lower(x) ==
  CASE x = "High" -> "high" [] x = "Medium" -> "medium" [] x = "Low" -> "low"
    [] x = "Too Short" -> "too short" [] x = "Optimal" -> "optimal"
    [] x = "Too Long" -> "too long" [] x = "Professional" -> "professional"
    [] x = "Casual" -> "casual" [] x = "Neutral" -> "neutral"
    [] x = "Aggressive" -> "aggressive" [] x = "Friendly" -> "friendly"
    [] OTHER -> x

\* The members of an object that are missing, of another type than declared,
\* or enumerated with a value that matches no allowed value in any case.
Offending(m) ==
  {f \in FieldSet :
     \/ m[f].t # DeclaredType(f)
     \/ f \in EnumFields /\ Lower(m[f].s) \notin {Lower(x) : x \in Allowed(f)}}

\* The first offending member in declaration order.
FirstOffending(m) ==
  Fields[CHOOSE i \in 1..Len(Fields) :
           Fields[i] \in Offending(m) /\ \A j \in 1..(i - 1) : Fields[j] \notin Offending(m)]

\* C10: a decoded object with an offending member is not published: the run
\* ends in failure (naming the first offending member).
C10_SchemaMismatchFails ==
  /\ last.step = "service" /\ last.reply.kind = "json" /\ last.reply.v.k = "obj"
  /\ Offending(last.reply.v.f) # {}
  => /\ last.notice = "alert:failed"
     /\ FirstOffending(last.reply.v.f) \in FieldSet

\* A payload the schema accepts as it is: every member present with its
\* declared type, the enumerated members allowed, the numbers in 0..100.
SchemaConformant(v) ==
  /\ Conforms(v)
  /\ Offending(v.f) = {}
  /\ \A f \in NumberFields : v.f[f].n \in 0..100

\* C11: a run whose service call answers with a schema-conformant payload
\* ends with the success toast, and analysisResult is the decoded payload,
\* member for member, the arrays in the order received.
C11_ConformantPayloadPublished ==
  /\ last.step = "service" /\ last.reply.kind = "json"
  /\ SchemaConformant(last.reply.v)
  => /\ last.notice = "toast.success"
     /\ analysisResult.k = "obj"
     /\ \A f \in FieldSet : analysisResult.f[f] = last.reply.v.f[f]

C11_Witness ==
  /\ last.step = "service" /\ last.notice = "toast.success"
  /\ last.reply = Reply("json", Obj(Sample))
  /\ analysisResult.f["skills_match.matched"].a = <<"Go", "AWS">>
  /\ analysisResult.f["skills_match.missing"].a = <<"Kubernetes">>

\* C12: a run issues at most one request to the completion service, and
\* exactly one when the extraction produced a non-empty text; a failed
\* request is not issued again.
C12_OneRequestPerNonEmptyText ==
  /\ \A r \in Runs : run[r].serviceCalls <= 1
  /\ last.serviceCalls <= 1
  /\ last.step = "extract" /\ last.text # "empty" => last.serviceCalls = 1
  /\ last.step = "service" => last.serviceCalls = 1

\* C12 as amended: a run issues at most one request to the completion
\* service, and exactly one when the extracted text has something in it
\* besides white space; a failed request is not issued again.
C12_OneRequestPerNonBlankText ==
  /\ \A r \in Runs : run[r].serviceCalls <= 1
  /\ last.serviceCalls <= 1
  /\ last.step = "extract" => (last.serviceCalls = 1 <=> last.text = "text")
  /\ last.step = "service" => last.serviceCalls = 1

C12_Witness ==
  /\ last.step = "service" /\ last.reply.kind = "reject"
  /\ last.notice = "alert:failed" /\ last.serviceCalls = 1
  /\ InFlight = {}

\* C13: once a run has ended in failure (scan-failure toast or failure
\* alert), the result of an earlier successful run is no longer exposed:
\* analysisResult is null.
C13_FailureReplacesEarlierResult ==
  last.notice \in {"toast.error:scan", "alert:failed"} => analysisResult = JNull

\* C14: whenever a run issues the success toast, the analysisResult it
\* published is a non-null object; a null content or a JSON value that is not
\* an object yields no success toast.
C14_SuccessPublishesObject ==
  last.step = "service" /\ last.notice = "toast.success"
    => /\ analysisResult.k = "obj"
       /\ last.reply.kind = "json" /\ last.reply.v.k = "obj"

====
